---- MODULE Spec2Model ----
(***************************************************************************)
(* A model of pgtrigger.contrib: the built-in trigger policies Protect,    *)
(* FSM, SoftDelete and UpdateSearchVector.  The Python side (constructors, *)
(* get_func, render_trigger, ignore) is translated from contrib.py; the    *)
(* SQL each policy renders is then run the way the database runs it, on a  *)
(* table of rows.  Text is a sequence of one-character strings wherever    *)
(* the code formats it into SQL and the database parses it back, so that   *)
(* rendering followed by parsing is computed, not assumed.                 *)
(***************************************************************************)
EXTENDS Integers, Sequences, FiniteSets, TLC

VARIABLES
    cls,        \* the class-level attributes of the policy class in use
    args,       \* the keyword arguments of the last constructor call
    trigger,    \* the constructed trigger object, or the raised exception
    installed,  \* whether the trigger and its function exist in the database
    table,      \* the rows of the table: primary key -> column value
    outcome,    \* what the last statement or call did
    origin,     \* the value the FSM-guarded column started from
    scope       \* the ignore scope: the stack of ignored trigger names

vars == <<cls, args, trigger, installed, table, outcome, origin, scope>>

(***************************************************************************)
(* Bounds of the model.                                                    *)
(***************************************************************************)
MaxTransitions == 2
NumRows == 2
MaxStrLen == 2
MaxScopeDepth == 2

(***************************************************************************)
(* Python values.                                                          *)
(***************************************************************************)
None == [t |-> "None"]
_unset == [t |-> "unset"]
PyStr(s) == [t |-> "str", v |-> s]
PyBool(b) == [t |-> "bool", v |-> b]
PyInt(i) == [t |-> "int", v |-> i]
PyList(l) == [t |-> "list", v |-> l]

\* bool(x): None, "", [], False and 0 are false.  A str
\* tested this way holds a field name.
Truthy(x) ==
    CASE x.t = "None" -> FALSE
      [] x.t = "str" -> x.v /= ""
      [] x.t = "list" -> x.v /= <<>>
      [] x.t = "bool" -> x.v
      [] x.t = "int" -> x.v /= 0
      [] OTHER -> TRUE

\* x or y
Or(x, y) == IF Truthy(x) THEN x ELSE y

Returned(obj) == [ok |-> TRUE, obj |-> obj]
Raised(exc, msg) == [ok |-> FALSE, exc |-> exc, msg |-> msg]

NoCall == [call |-> "none"]

(***************************************************************************)
(* Text helpers.                                                           *)
(***************************************************************************)
RECURSIVE Join(_, _)
\* sep.join(parts)
Join(parts, sep) ==
    IF parts = <<>> THEN <<>>
    ELSE IF Len(parts) = 1 THEN parts[1]
    ELSE parts[1] \o sep \o Join(Tail(parts), sep)

RECURSIVE SplitOn(_, _)
\* the pieces of s between occurrences of the character sep
SplitOn(s, sep) ==
    IF \A i \in 1..Len(s) : s[i] /= sep THEN <<s>>
    ELSE LET k == CHOOSE i \in 1..Len(s) :
                      s[i] = sep /\ \A j \in 1..(i - 1) : s[j] /= sep
         IN <<SubSeq(s, 1, k - 1)>> \o SplitOn(SubSeq(s, k + 1, Len(s)), sep)

RECURSIVE SetToSeq(_)
SetToSeq(S) ==
    IF S = {} THEN <<>>
    ELSE LET x == CHOOSE y \in S : TRUE IN <<x>> \o SetToSeq(S \ {x})

Range(f) == {f[i] : i \in DOMAIN f}

RECURSIVE SubsetsUpTo(_, _)
\* the subsets of S with at most n elements
SubsetsUpTo(S, n) ==
    IF n = 0 THEN {{}}
    ELSE LET P == SubsetsUpTo(S, n - 1)
         IN P \cup {T \cup {x} : T \in P, x \in S}

(***************************************************************************)
(* Firing of row triggers                                                  *)
(***************************************************************************)
\* An operation of a trigger: the statement kinds it is declared for, and the
\* columns of its UPDATE OF part.
Operation(kinds, cols) == [kinds |-> kinds, update_of |-> cols]

\* Whether a FOR EACH ROW trigger declared for operation op runs for a row of
\* statement stmt: the statement's kind is one of op's, or the statement is an
\* UPDATE that names one of op's UPDATE OF columns in its SET list.
Fires(op, stmt) ==
    \/ stmt.kind \in op.kinds
    \/ stmt.kind = "UPDATE" /\ stmt.cols \cap op.update_of /= {}

(***************************************************************************)
(* FSM                                                                     *)
(***************************************************************************)
\* The characters of the guarded column's values: plain letters and the two
\* characters FSM.get_func uses to encode the transition pairs.
FSMChars == {"d", "p", ":", ","}

\* The domain of the guarded column, a non-null CharField: the empty string and
\* the one-character strings.
FSMValues == {<<>>} \cup {<<c>> : c \in FSMChars}

FSMPairs == FSMValues \X FSMValues

\* The transition lists the constructor is called with: one list for each
\* non-empty set of at most MaxTransitions pairs (the order of the list does not
\* change which strings the rendered array holds).
FSMTransitionLists ==
    {SetToSeq(S) : S \in SubsetsUpTo(FSMPairs, MaxTransitions) \ {{}}}

\* FSM.__init__
FSM_init(c, a) ==
    LET field == Or(a.field, c.field)
        transitions == Or(a.transitions, c.transitions)
    IN IF ~Truthy(field)
         THEN Raised("ValueError", "Must provide field for FSM")
       ELSE IF ~Truthy(transitions)
         THEN Raised("ValueError", "Must provide transitions for FSM")
       ELSE Returned([kind |-> "FSM", when |-> "BEFORE", operation |-> Operation({"UPDATE"}, {}),
                      field |-> field.v, transitions |-> transitions.v])

\* transition_uris of FSM.get_func: '{' + ','.join(f'{old}:{new}' ...) + '}'
FSM_transition_uris(transitions) ==
    <<"{">>
    \o Join([i \in 1..Len(transitions) |->
                 transitions[i][1] \o <<":">> \o transitions[i][2]], <<",">>)
    \o <<"}">>

\* FSM.get_func: the parts of the rendered function body that vary.
FSM_get_func(t) ==
    [col |-> t.field, field |-> t.field,
     transition_uris |-> FSM_transition_uris(t.transitions)]

\* '<literal>'::text[] as the database reads it, for text without quotes,
\* backslashes, braces or blanks: the items between the commas, and an error
\* when an item is empty ('{}' alone is the empty array).
ArrayIn(lit) ==
    LET body == SubSeq(lit, 2, Len(lit) - 1)
        items == SplitOn(body, ",")
    IN IF body = <<>> THEN [ok |-> TRUE, elems |-> {}]
       ELSE IF \E i \in 1..Len(items) : items[i] = <<>>
         THEN [ok |-> FALSE, elems |-> {}]
       ELSE [ok |-> TRUE, elems |-> Range(items)]

\* FSM_run with the IS DISTINCT FROM test of the guard left out.
FSM_run_no_distinct(func, old, new) ==
    LET arr == ArrayIn(func.transition_uris)
        _is_valid_transition == (old \o <<":">> \o new) \in arr.elems
    IN IF ~arr.ok
         THEN [status |-> "malformed_array_literal", row |-> old,
               msg |-> <<func.transition_uris>>]
       ELSE IF ~_is_valid_transition
         THEN [status |-> "invalid_transition", row |-> old,
               msg |-> <<func.field, old, new>>]
       ELSE [status |-> "ok", row |-> new, msg |-> <<>>]

\* The body FSM.get_func renders, run for one row: OLD and NEW are the guarded
\* column's old and new values.
FSM_run(func, old, new) ==
    LET arr == ArrayIn(func.transition_uris)
        _is_valid_transition == (old \o <<":">> \o new) \in arr.elems
    IN IF ~arr.ok
         THEN [status |-> "malformed_array_literal", row |-> old,
               msg |-> <<func.transition_uris>>]
       ELSE IF ~_is_valid_transition /\ old /= new
         THEN [status |-> "invalid_transition", row |-> old,
               msg |-> <<func.field, old, new>>]
       ELSE [status |-> "ok", row |-> new, msg |-> <<>>]

FSMInit ==
    /\ cls = [kind |-> "FSM", field |-> None, transitions |-> None]
    /\ \E tr \in FSMTransitionLists :
          /\ args = [field |-> PyStr("status"), transitions |-> PyList(tr)]
          /\ trigger = FSM_init(cls, args).obj
    /\ installed = TRUE
    /\ origin \in FSMValues
    /\ table = [pk \in {1} |-> origin]
    /\ outcome = NoCall
    /\ scope = <<>>

\* UPDATE ... SET status = new on the row, with the FSM trigger installed.
FSMUpdate ==
    \E new \in FSMValues :
        LET old == table[1]
            res == FSM_run(FSM_get_func(trigger), old, new)
        IN /\ table' = [table EXCEPT ![1] = res.row]
           /\ outcome' = [call |-> "UPDATE", old |-> old, new |-> new,
                          status |-> res.status, msg |-> res.msg]
           /\ UNCHANGED <<cls, args, trigger, installed, origin, scope>>

FSMNext == FSMUpdate

SpecFSM == FSMInit /\ [][FSMNext]_vars

\* The declared transition set of the FSM trigger.
Declared == Range(trigger.transitions)

RECURSIVE ReachableFrom(_, _)
\* the values reachable from the set R along pairs of T
ReachableFrom(R, T) ==
    LET step == R \cup {p[2] : p \in {q \in T : q[1] \in R}}
    IN IF step = R THEN R ELSE ReachableFrom(step, T)

\* C1: an update from old to new succeeds when (old, new) is declared, and fails
\* with the transition error naming old and new when old differs from new and
\* (old, new) is not declared, for every value of the column, those holding ':'
\* or ',' included.
C1_DeclaredPairsDecide ==
    outcome.call = "UPDATE" =>
        /\ <<outcome.old, outcome.new>> \in Declared =>
               outcome.status = "ok" /\ table[1] = outcome.new
        /\ (outcome.old /= outcome.new /\ <<outcome.old, outcome.new>> \notin Declared) =>
               /\ outcome.status = "invalid_transition"
               /\ outcome.msg = <<trigger.field, outcome.old, outcome.new>>
               /\ table[1] = outcome.old

\* C2: an update that sets the guarded column to its current value never raises
\* the invalid-transition error, whatever the transition set holds.
C2_SameValueNeverInvalid ==
    (outcome.call = "UPDATE" /\ outcome.old = outcome.new) =>
        /\ outcome.status /= "invalid_transition"
        /\ table[1] = outcome.old

\* C2's case: the column was set to its own value, the pair (v, v) is not
\* declared, and the update went through.
C2_Witness ==
    /\ outcome.call = "UPDATE"
    /\ outcome.old = outcome.new
    /\ <<outcome.old, outcome.new>> \notin Declared
    /\ outcome.status = "ok"

\* C10: in every reachable state the guarded column's value is reachable from
\* the value it started with along declared transitions.
C10_ValueOnDeclaredPath ==
    table[1] \in ReachableFrom({origin}, Declared)

(***************************************************************************)
(* SoftDelete                                                              *)
(***************************************************************************)
SDChars == {"a", "'"}

RECURSIVE StringsUpTo(_, _)
\* the strings over C of length at most n
StringsUpTo(C, n) ==
    IF n = 0 THEN {<<>>}
    ELSE LET P == StringsUpTo(C, n - 1)
         IN P \cup {Append(w, c) : w \in P, c \in C}

\* The values a SoftDelete trigger is configured with: None, a bool, an int or
\* a str (a nullable BooleanField, IntField or CharField).
SDValues ==
    {None} \cup {PyBool(b) : b \in BOOLEAN} \cup {PyInt(i) : i \in -1..1}
    \cup {PyStr(w) : w \in StringsUpTo(SDChars, MaxStrLen)}

DigitChars == <<"0", "1", "2", "3", "4", "5", "6", "7", "8", "9">>

RECURSIVE NatStr(_)
NatStr(n) ==
    IF n < 10 THEN <<DigitChars[n + 1]>>
    ELSE NatStr(n \div 10) \o <<DigitChars[(n % 10) + 1]>>

\* str(x) for a bool or an int
PyStrOf(x) ==
    CASE x.t = "bool" ->
           IF x.v THEN <<"T", "r", "u", "e">> ELSE <<"F", "a", "l", "s", "e">>
      [] x.t = "int" -> IF x.v < 0 THEN <<"-">> \o NatStr(-x.v) ELSE NatStr(x.v)

\* SoftDelete.__init__
SoftDelete_init(c, a) ==
    LET field == Or(a.field, c.field)
        value == IF a.value /= _unset THEN a.value ELSE c.value
    IN IF ~Truthy(field)
         THEN Raised("ValueError", "Must provide field for soft delete")
       ELSE Returned([kind |-> "SoftDelete", when |-> "BEFORE",
                      operation |-> Operation({"DELETE"}, {}), field |-> field.v, value |-> value])

\* _render_value of SoftDelete.get_func
_render_value(value) ==
    IF value = None THEN <<"N", "U", "L", "L">>
    ELSE IF value.t = "str" THEN <<"'">> \o value.v \o <<"'">>
    ELSE PyStrOf(value)

\* SoftDelete.get_func: the parts of the rendered function body that vary.
SoftDelete_get_func(t) ==
    [soft_field |-> t.field, pk_col |-> "id", value_sql |-> _render_value(t.value)]

RECURSIVE ScanString(_, _)
\* The database's lexer inside a '...' constant, after the opening quote: ''
\* stands for one quote, a single ' ends the constant.  closed is FALSE when the
\* text ends first.
ScanString(s, acc) ==
    IF s = <<>> THEN [closed |-> FALSE, text |-> acc, rest |-> <<>>]
    ELSE IF s[1] /= "'" THEN ScanString(Tail(s), Append(acc, s[1]))
    ELSE IF Len(s) >= 2 /\ s[2] = "'" THEN ScanString(SubSeq(s, 3, Len(s)), Append(acc, "'"))
    ELSE [closed |-> TRUE, text |-> acc, rest |-> Tail(s)]

RECURSIVE ScanWord(_, _)
\* a run of characters up to the next quote
ScanWord(s, acc) ==
    IF s = <<>> \/ s[1] = "'" THEN [text |-> acc, rest |-> s]
    ELSE ScanWord(Tail(s), Append(acc, s[1]))

RECURSIVE Lex(_)
\* The tokens of an SQL expression made of string constants and words; ok is
\* FALSE when a string constant is not terminated.
Lex(s) ==
    IF s = <<>> THEN [ok |-> TRUE, toks |-> <<>>]
    ELSE IF s[1] = "'"
      THEN LET q == ScanString(Tail(s), <<>>)
           IN IF ~q.closed THEN [ok |-> FALSE, toks |-> <<>>]
              ELSE LET r == Lex(q.rest)
                   IN [ok |-> r.ok, toks |-> <<[t |-> "str", v |-> q.text]>> \o r.toks]
    ELSE LET w == ScanWord(s, <<>>)
             r == Lex(w.rest)
         IN [ok |-> r.ok, toks |-> <<[t |-> "word", v |-> w.text]>> \o r.toks]

IsDigits(w) == w /= <<>> /\ \A i \in 1..Len(w) : w[i] \in Range(DigitChars)

RECURSIVE NatOf(_)
NatOf(w) ==
    IF w = <<>> THEN 0
    ELSE 10 * NatOf(SubSeq(w, 1, Len(w) - 1))
         + ((CHOOSE d \in 1..10 : DigitChars[d] = w[Len(w)]) - 1)

\* The value a word denotes as an SQL expression: the NULL, TRUE and FALSE
\* keywords in any case, and integer constants.
WordValue(w) ==
    CASE w = <<"N", "U", "L", "L">> -> [kind |-> "value", value |-> None]
      [] w = <<"T", "r", "u", "e">> -> [kind |-> "value", value |-> PyBool(TRUE)]
      [] w = <<"F", "a", "l", "s", "e">> -> [kind |-> "value", value |-> PyBool(FALSE)]
      [] IsDigits(w) -> [kind |-> "value", value |-> PyInt(NatOf(w))]
      [] Len(w) >= 2 /\ w[1] = "-" /\ IsDigits(Tail(w)) ->
           [kind |-> "value", value |-> PyInt(-NatOf(Tail(w)))]
      [] OTHER -> [kind |-> "syntax_error"]

\* What the database makes of the text after SET <field> = : the value a single
\* constant denotes, "unterminated" when a quote is left open (the function body
\* does not lex), "syntax_error" when the tokens are not one constant.
SqlValue(sql) ==
    LET l == Lex(sql)
    IN IF ~l.ok THEN [kind |-> "unterminated"]
       ELSE IF Len(l.toks) /= 1 THEN [kind |-> "syntax_error"]
       ELSE IF l.toks[1].t = "str"
         THEN [kind |-> "value", value |-> PyStr(l.toks[1].v)]
       ELSE WordValue(l.toks[1].v)

\* SoftDelete_run with RETURN OLD in place of RETURN NULL.
SoftDelete_run_return_old(func, tbl, pk) ==
    LET v == SqlValue(func.value_sql)
    IN IF v.kind /= "value"
         THEN [status |-> "syntax_error", table |-> tbl, returned |-> "none"]
       ELSE [status |-> "ok", table |-> [tbl EXCEPT ![pk] = v.value],
             returned |-> "OLD"]

\* The body SoftDelete.get_func renders, run for the row OLD with primary key
\* pk: UPDATE <table> SET <field> = <value> WHERE <pk_col> = OLD.<pk_col>;
\* RETURN NULL;
SoftDelete_run(func, tbl, pk) ==
    LET v == SqlValue(func.value_sql)
    IN IF v.kind /= "value"
         THEN [status |-> "syntax_error", table |-> tbl, returned |-> "none"]
       ELSE [status |-> "ok", table |-> [tbl EXCEPT ![pk] = v.value],
             returned |-> "NULL"]

PKs == 1..NumRows

\* The values a column of the configured value's type starts with.
SameType(v) == IF v = None THEN SDValues ELSE {None} \cup {w \in SDValues : w.t = v.t}

SDInit ==
    /\ cls = [kind |-> "SoftDelete", field |-> None, value |-> PyBool(FALSE)]
    /\ \E v \in SDValues \cup {_unset} :
          /\ args = [field |-> PyStr("is_active"), value |-> v]
          /\ trigger = SoftDelete_init(cls, args).obj
    /\ installed = FALSE
    /\ \E live \in SameType(trigger.value) : table = [pk \in PKs |-> live]
    /\ outcome = NoCall
    /\ origin = <<>>
    /\ scope = <<>>

\* What the next statement records of the one before it.
Prev == IF outcome.call = "DELETE"
        THEN [call |-> "DELETE", pk |-> outcome.pk, fired |-> outcome.fired]
        ELSE [call |-> outcome.call]

\* install: CREATE FUNCTION with the rendered body, then CREATE TRIGGER.  The
\* database refuses a body that does not lex.
SDInstall ==
    /\ ~installed
    /\ LET v == SqlValue(SoftDelete_get_func(trigger).value_sql)
       IN /\ installed' = (v.kind /= "unterminated")
          /\ outcome' = [call |-> "install",
                         status |-> IF v.kind = "unterminated"
                                    THEN "unterminated_string" ELSE "ok"]
    /\ UNCHANGED <<cls, args, trigger, table, origin, scope>>

\* DELETE FROM <table> WHERE <pk_col> = pk.  A BEFORE DELETE row trigger runs
\* for the row when installed; the row is removed unless the trigger returns
\* NULL or raises.
SDDelete ==
    \E pk \in PKs :
        /\ IF pk \notin DOMAIN table
             THEN /\ table' = table
                  /\ outcome' = [call |-> "DELETE", pk |-> pk, status |-> "ok",
                                 fired |-> FALSE, returned |-> "none",
                                 before |-> table, prev |-> Prev]
           ELSE IF ~installed
             THEN /\ table' = [k \in DOMAIN table \ {pk} |-> table[k]]
                  /\ outcome' = [call |-> "DELETE", pk |-> pk, status |-> "ok",
                                 fired |-> FALSE, returned |-> "none",
                                 before |-> table, prev |-> Prev]
           ELSE LET r == SoftDelete_run(SoftDelete_get_func(trigger), table, pk)
                IN /\ table' = IF r.returned = "OLD"
                                 THEN [k \in DOMAIN r.table \ {pk} |-> r.table[k]]
                               ELSE r.table
                   /\ outcome' = [call |-> "DELETE", pk |-> pk, status |-> r.status,
                                  fired |-> TRUE, returned |-> r.returned,
                                  before |-> table, prev |-> Prev]
        /\ UNCHANGED <<cls, args, trigger, installed, origin, scope>>

SDNext == SDInstall \/ SDDelete

SpecSoftDelete == SDInit /\ [][SDNext]_vars

\* C3: with the trigger installed, a delete of a row leaves the row in the
\* table with the configured field equal to the configured value, the delete
\* itself suppressed, and every other row as it was.
C3_DeleteKeepsRowWithValue ==
    (outcome.call = "DELETE" /\ outcome.fired) =>
        /\ DOMAIN table = DOMAIN outcome.before
        /\ table[outcome.pk] = trigger.value
        /\ outcome.returned = "NULL"
        /\ \A k \in DOMAIN table \ {outcome.pk} : table[k] = outcome.before[k]

\* C8: a second delete of a row, right after a first one that the trigger
\* handled, leaves the table as the first delete left it, the row still in it.
C8_SecondDeleteChangesNothing ==
    (/\ outcome.call = "DELETE"
     /\ outcome.prev.call = "DELETE"
     /\ outcome.prev.pk = outcome.pk
     /\ outcome.prev.fired) =>
        /\ outcome.pk \in DOMAIN table
        /\ outcome.fired
        /\ table = outcome.before

\* C8's case: the trigger handled two deletes of the same row in a row, and the
\* first of them had changed the row.
C8_Witness ==
    /\ outcome.call = "DELETE"
    /\ outcome.fired
    /\ outcome.status = "ok"
    /\ outcome.prev.call = "DELETE"
    /\ outcome.prev.pk = outcome.pk
    /\ outcome.prev.fired
    /\ \E k \in PKs \ {outcome.pk} : table[k] /= table[outcome.pk]

\* C9: the value is the constructor's when one is passed (None included) and
\* the class default otherwise; None renders as NULL, a str in single quotes, a
\* bool or number bare; and the rendered text denotes the configured value, for
\* every str, one holding a single quote included.
C9_RenderedLiteralDenotesValue ==
    LET v == trigger.value
        r == _render_value(v)
    IN /\ v = (IF args.value /= _unset THEN args.value ELSE cls.value)
       /\ v = None => r = <<"N", "U", "L", "L">>
       /\ (v /= None /\ v.t = "str") => r = <<"'">> \o v.v \o <<"'">>
       /\ (v /= None /\ v.t /= "str") => "'" \notin Range(r)
       /\ SqlValue(r) = [kind |-> "value", value |-> v]

(***************************************************************************)
(* Protect                                                                 *)
(***************************************************************************)
StatementKinds == {"INSERT", "UPDATE", "DELETE"}
RowValues == {"x", "y"}

\* Protect(name=..., operation=...): Protect has no constructor of its own and
\* sets only when = Before.
Protect_init(operation) ==
    Returned([kind |-> "Protect", when |-> "BEFORE", operation |-> operation])

\* Protect.get_func: RAISE EXCEPTION 'pgtrigger: Cannot <operation> rows from
\* % table', TG_TABLE_NAME
Protect_get_func(t) == [raise |-> <<"pgtrigger: Cannot", t.operation.kinds, "rows">>]

\* Protect_run with the RAISE left out: the row passes.
Protect_run_no_raise(func) == [status |-> "ok", msg |-> <<>>]

\* The body Protect.get_func renders, run for one row: it raises.
Protect_run(func) == [status |-> "exception", msg |-> func.raise]

\* The table after a statement that no trigger stops.
Apply(tbl, stmt) ==
    CASE stmt.kind = "INSERT" ->
           [k \in DOMAIN tbl \cup {stmt.pk} |-> IF k = stmt.pk THEN stmt.value ELSE tbl[k]]
      [] stmt.kind = "UPDATE" -> [tbl EXCEPT ![stmt.pk] = stmt.value]
      [] stmt.kind = "DELETE" -> [k \in DOMAIN tbl \ {stmt.pk} |-> tbl[k]]

ProtectInit ==
    /\ cls = [kind |-> "Protect"]
    /\ \E S \in SUBSET StatementKinds \ {{}} :
          /\ args = [operation |-> Operation(S, {})]
          /\ trigger = Protect_init(args.operation).obj
    /\ installed = TRUE
    /\ \E D \in SUBSET PKs : table = [pk \in D |-> "x"]
    /\ outcome = NoCall
    /\ origin = <<>>
    /\ scope = <<>>

\* One statement on one row, with the Protect trigger installed BEFORE the
\* statement kinds of its operation.
ProtectStatement(stmt) ==
    LET r == IF Fires(trigger.operation, stmt)
             THEN Protect_run(Protect_get_func(trigger))
             ELSE [status |-> "ok", msg |-> <<>>]
    IN /\ table' = IF r.status = "ok" THEN Apply(table, stmt) ELSE table
       /\ outcome' = [call |-> stmt.kind, stmt |-> stmt, status |-> r.status,
                      msg |-> r.msg, before |-> table]
       /\ UNCHANGED <<cls, args, trigger, installed, origin, scope>>

ProtectInsert ==
    \E pk \in PKs \ DOMAIN table, v \in RowValues :
        ProtectStatement([kind |-> "INSERT", pk |-> pk, value |-> v, cols |-> {"value"}])

ProtectUpdate ==
    \E pk \in DOMAIN table, v \in RowValues :
        ProtectStatement([kind |-> "UPDATE", pk |-> pk, value |-> v, cols |-> {"value"}])

ProtectDelete ==
    \E pk \in DOMAIN table :
        ProtectStatement([kind |-> "DELETE", pk |-> pk, value |-> "x", cols |-> {}])

ProtectNext == ProtectInsert \/ ProtectUpdate \/ ProtectDelete

SpecProtect == ProtectInit /\ [][ProtectNext]_vars

\* C4: a statement whose kind is in the trigger's operation set fails with the
\* exception and leaves the table's rows as they were; a statement whose kind
\* is not in the set does what it does with no trigger installed.
C4_ProtectedKindsFail ==
    outcome.call \in StatementKinds =>
        IF outcome.call \in trigger.operation.kinds
        THEN outcome.status = "exception" /\ table = outcome.before
        ELSE outcome.status = "ok" /\ table = Apply(outcome.before, outcome.stmt)

\* C4's case: a protected statement was refused on a table where it would have
\* changed a row, and the trigger leaves some other statement kind alone.
C4_Witness ==
    /\ outcome.call \in trigger.operation.kinds
    /\ outcome.status = "exception"
    /\ Apply(outcome.before, outcome.stmt) /= outcome.before
    /\ trigger.operation.kinds /= StatementKinds

(***************************************************************************)
(* UpdateSearchVector                                                      *)
(***************************************************************************)
\* The columns of the SearchModel table.
Columns == {"id", "body_vector", "title_body_vector", "title", "body"}

\* core.UpdateOf(*columns): at least one column is needed.
UpdateOf(columns) ==
    IF columns = <<>>
      THEN Raised("ValueError", "Must provide at least one column to update")
    ELSE Returned(Range(columns))

\* An operation that is any INSERT or any UPDATE.
USV_operation_any_update(document_fields) ==
    Returned(Operation({"INSERT", "UPDATE"}, {}))

\* core.Insert | core.UpdateOf(*document_fields), of the constructor's own
\* document_fields argument: unpacking None is a TypeError.
USV_operation(document_fields) ==
    IF document_fields = None
      THEN Raised("TypeError", "argument after * must be an iterable, not NoneType")
    ELSE LET u == UpdateOf(document_fields.v)
         IN IF ~u.ok THEN u ELSE Returned(Operation({"INSERT"}, u.obj))

\* UpdateSearchVector.__init__
UpdateSearchVector_init(c, a) ==
    LET vector_field == Or(a.vector_field, c.vector_field)
        document_fields == Or(a.document_fields, c.document_fields)
        config_name == Or(a.config_name, c.config_name)
    IN IF ~Truthy(vector_field)
         THEN Raised("ValueError", "Must provide vector_field to update search vector")
       ELSE IF ~Truthy(document_fields)
         THEN Raised("ValueError", "Must provide document_fields to update search vector")
       ELSE IF ~Truthy(config_name)
         THEN Raised("ValueError", "Must provide config_name to update search vector")
       ELSE LET op == USV_operation(a.document_fields)
            IN IF ~op.ok THEN op
               ELSE Returned([kind |-> "UpdateSearchVector", when |-> "BEFORE",
                              name |-> a.name.v, operation |-> op.obj,
                              vector_field |-> vector_field.v,
                              document_fields |-> document_fields.v,
                              config_name |-> config_name.v])

\* UpdateSearchVector.render_trigger: the trigger runs the built-in
\* tsvector_update_trigger(<vector>, <config>, <document columns>) for the
\* trigger's operation.
UpdateSearchVector_render_trigger(t) ==
    [operation |-> t.operation,
     function |-> <<"tsvector_update_trigger", t.vector_field, t.config_name,
                    t.document_fields>>]

\* An ignore that enters the scope, as a trigger without the override does.
UpdateSearchVector_ignore_enters(t, sc) ==
    [status |-> "ok", scope |-> Append(sc, t.name)]

\* UpdateSearchVector.ignore: raises RuntimeError on the call.
UpdateSearchVector_ignore(t, sc) ==
    [status |-> "RuntimeError", scope |-> sc]

\* Entering an ignore scope for a trigger that allows it: its name is pushed on
\* the scope.
Trigger_ignore_enter(name, sc) == Append(sc, name)

\* Leaving the innermost ignore scope.
Trigger_ignore_exit(sc) == SubSeq(sc, 1, Len(sc) - 1)

\* A trigger is disabled while its name is on the scope.
Enabled(name, sc) == name \notin Range(sc)

Sibling == "protect_deletes"

DocumentFieldLists ==
    {<<"title">>, <<"body">>, <<"title", "body">>, <<"body", "title">>, <<"id", "title">>}

USVInit ==
    /\ \E cd \in {None} \cup {PyList(l) : l \in DocumentFieldLists} :
          cls = [kind |-> "UpdateSearchVector", vector_field |-> None,
                 document_fields |-> cd, config_name |-> PyStr("pg_catalog.english")]
    /\ \E vf \in {"body_vector", "title_body_vector"}, l \in DocumentFieldLists,
          cn \in {None, PyStr("pg_catalog.simple")} :
          args = [name |-> PyStr("search"), vector_field |-> PyStr(vf),
                  document_fields |-> PyList(l), config_name |-> cn]
    /\ UpdateSearchVector_init(cls, args).ok
    /\ trigger = UpdateSearchVector_init(cls, args).obj
    /\ installed = TRUE
    /\ table = <<>>
    /\ outcome = NoCall
    /\ origin = <<>>
    /\ scope = <<>>

\* One row of a statement on the table with the trigger installed.
USVStatement(stmt) ==
    /\ outcome' = [call |-> stmt.kind, cols |-> stmt.cols,
                   fired |-> Fires(UpdateSearchVector_render_trigger(trigger).operation,
                                   stmt)]
    /\ UNCHANGED <<cls, args, trigger, installed, table, origin, scope>>

USVInsert == USVStatement([kind |-> "INSERT", cols |-> Columns])

\* UPDATE ... SET <cols>
USVUpdate ==
    \E cols \in SUBSET Columns \ {{}} : USVStatement([kind |-> "UPDATE", cols |-> cols])

\* trigger.ignore(model) on the UpdateSearchVector trigger
USVIgnore ==
    LET r == UpdateSearchVector_ignore(trigger, scope)
    IN /\ scope' = r.scope
       /\ outcome' = [call |-> "ignore", target |-> trigger.name,
                      status |-> r.status, before |-> scope]
       /\ UNCHANGED <<cls, args, trigger, installed, table, origin>>

\* entering an ignore scope for another trigger of the table
SiblingIgnoreEnter ==
    /\ Len(scope) < MaxScopeDepth
    /\ scope' = Trigger_ignore_enter(Sibling, scope)
    /\ outcome' = [call |-> "ignore", target |-> Sibling, status |-> "ok",
                   before |-> scope]
    /\ UNCHANGED <<cls, args, trigger, installed, table, origin>>

SiblingIgnoreExit ==
    /\ scope /= <<>>
    /\ scope' = Trigger_ignore_exit(scope)
    /\ outcome' = [call |-> "ignore_exit", target |-> Sibling, status |-> "ok",
                   before |-> scope]
    /\ UNCHANGED <<cls, args, trigger, installed, table, origin>>

USVNext ==
    USVInsert \/ USVUpdate \/ USVIgnore \/ SiblingIgnoreEnter \/ SiblingIgnoreExit

SpecUSV == USVInit /\ [][USVNext]_vars

\* C6: ignore on an UpdateSearchVector trigger raises on the call and enters no
\* scope: the scope, and with it the trigger's enabled state, is as before.
C6_IgnoreRaisesAndKeepsScope ==
    (outcome.call = "ignore" /\ outcome.target = trigger.name) =>
        /\ outcome.status = "RuntimeError"
        /\ scope = outcome.before
        /\ Enabled(trigger.name, scope)

\* C6's case: ignore was called on the trigger while a scope for another
\* trigger was open.
C6_Witness ==
    /\ outcome.call = "ignore"
    /\ outcome.target = trigger.name
    /\ outcome.status = "RuntimeError"
    /\ scope /= <<>>

\* C7: the trigger runs on every insert and on every update that names a listed
\* document field, and on no update that names only other columns.
C7_FiresOnInsertOrListedColumns ==
    outcome.call \in {"INSERT", "UPDATE"} =>
        (outcome.fired <=>
            \/ outcome.call = "INSERT"
            \/ outcome.cols \cap Range(trigger.document_fields) /= {})

\* C7's case: an update of columns outside document_fields did not run the
\* trigger, for a trigger whose class also lists document fields.
C7_Witness ==
    /\ outcome.call = "UPDATE"
    /\ ~outcome.fired
    /\ outcome.cols /= {}
    /\ cls.document_fields /= None
    /\ cls.document_fields /= args.document_fields

(***************************************************************************)
(* Construction                                                            *)
(***************************************************************************)
NameOptions(n) == {None, PyStr(""), PyStr(n)}
TransitionOptions == {None, PyList(<<>>), PyList(<< <<<<"d">>, <<"p">>>> >>)}
DocumentOptions == {None, PyList(<<>>)} \cup {PyList(l) : l \in DocumentFieldLists}

\* The class-level attributes of FSM, SoftDelete and UpdateSearchVector and of
\* subclasses that set them.
ClassAttributes ==
    {[kind |-> "FSM", field |-> f, transitions |-> tr] :
        f \in NameOptions("status"), tr \in TransitionOptions}
    \cup {[kind |-> "SoftDelete", field |-> f, value |-> PyBool(FALSE)] :
        f \in NameOptions("is_active")}
    \cup {[kind |-> "UpdateSearchVector", vector_field |-> vf, document_fields |-> df,
           config_name |-> PyStr("pg_catalog.english")] :
        vf \in NameOptions("body_vector"), df \in DocumentOptions}

\* The keyword arguments a constructor of the class is called with.
Arguments(kind) ==
    CASE kind = "FSM" ->
           {[field |-> f, transitions |-> tr] :
               f \in NameOptions("status"), tr \in TransitionOptions}
      [] kind = "SoftDelete" ->
           {[field |-> f, value |-> v] :
               f \in NameOptions("is_active"), v \in {_unset, None, PyBool(TRUE)}}
      [] kind = "UpdateSearchVector" ->
           {[name |-> PyStr("search"), vector_field |-> vf, document_fields |-> df,
             config_name |-> cn] :
               vf \in NameOptions("body_vector"), df \in DocumentOptions,
               cn \in {None, PyStr("pg_catalog.simple")}}

\* cls(**a)
New(c, a) ==
    CASE c.kind = "FSM" -> FSM_init(c, a)
      [] c.kind = "SoftDelete" -> SoftDelete_init(c, a)
      [] c.kind = "UpdateSearchVector" -> UpdateSearchVector_init(c, a)

ConstructInit ==
    /\ cls \in ClassAttributes
    /\ args = NoCall
    /\ trigger = None
    /\ installed = FALSE
    /\ table = <<>>
    /\ outcome = NoCall
    /\ origin = <<>>
    /\ scope = <<>>

Construct ==
    /\ outcome = NoCall
    /\ \E a \in Arguments(cls.kind) :
          LET r == New(cls, a)
          IN /\ args' = a
             /\ trigger' = IF r.ok THEN r.obj ELSE None
             /\ outcome' = [call |-> "construct",
                            status |-> IF r.ok THEN "ok" ELSE r.exc]
    /\ UNCHANGED <<cls, installed, table, origin, scope>>

ConstructNext == Construct

SpecConstruct == ConstructInit /\ [][ConstructNext]_vars

\* The parameters a policy requires.
Required(kind) ==
    CASE kind = "FSM" -> {"field", "transitions"}
      [] kind = "SoftDelete" -> {"field"}
      [] kind = "UpdateSearchVector" -> {"vector_field", "document_fields"}

\* A parameter is supplied when the class or the call gives it a value.
Supplied(p) == Truthy(args[p]) \/ Truthy(cls[p])

\* C5: construction succeeds when every required parameter is supplied at class
\* level or in the call, and fails with an error when one is supplied in
\* neither.
C5_ConstructsIffSupplied ==
    outcome.call = "construct" =>
        (outcome.status = "ok" <=> \A p \in Required(cls.kind) : Supplied(p))

====
